---- MODULE Spec2Model ----
(***************************************************************************)
(* Story AI: the App component (session state, narrative generation,       *)
(* suggestion generation, narration and playback), the ChatBot component   *)
(* (transcript, send) and the request builders of geminiService.           *)
(*                                                                         *)
(* Every asynchronous service call is a record in a list of calls in       *)
(* flight: it is issued by its trigger, settled by the service (resolved   *)
(* with a payload, or rejected), and then the rest of its handler runs.    *)
(***************************************************************************)
EXTENDS Integers, Sequences, FiniteSets, TLC

VARIABLES
    state,            \* App: the StoryState held by useState
    activeTab,        \* App: 'chat' | 'sparks'
    audioContextRef,  \* App: TRUE once the AudioContext has been created
    audioSourceRef,   \* App: index in sources of the last started source, 0 = null
    sources,          \* the AudioBufferSourceNodes created so far, by playback status
    messages,         \* ChatBot: the transcript of the mounted instance
    input,            \* ChatBot: the text field
    isLoading,        \* ChatBot: the pending flag of the mounted instance
    analyzeCalls,     \* generateStoryFromMedia calls in flight
    suggestCalls,     \* generateStorySuggestions calls in flight
    chatCalls,        \* chatWithStoryAssistant calls in flight
    narrateCalls,     \* narrateText calls in flight
    codec             \* a byte buffer handed to the codec functions, and what they returned

vars == <<state, activeTab, audioContextRef, audioSourceRef, sources, messages,
          input, isLoading, analyzeCalls, suggestCalls, chatCalls, narrateCalls,
          codec>>

appVars == <<state, activeTab, audioContextRef, audioSourceRef, sources>>
chatVars == <<messages, input, isLoading>>
callVars == <<analyzeCalls, suggestCalls, chatCalls, narrateCalls>>

----------------------------------------------------------------------------
(* Bounds of the model *)

\* calls of one action type that may be in flight at once
MaxInFlight == 2
\* turns a transcript may hold before the model stops sending
MaxTurns == 5
\* audio sources created in one run
MaxSources == 2
\* bytes in a buffer handed to the codec functions
MaxBytes == 8

----------------------------------------------------------------------------
(* Values *)

\* null media (state.image === null) and null mime type; both are falsy
NoMedia == <<>>
NoMime == ""

\* A data URL is kept as its comma-separated segments: "data:<mime>;base64" , "<payload>"
Media ==
    { [url |-> <<"data:image/png;base64", "iVBO">>, type |-> "image/png"],
      [url |-> <<"data:video/mp4;base64", "AAAA">>, type |-> "video/mp4"] }

AppLanguage == {"English", "Hindi"}

Titles == {"", "Dusk"}

\* text the user may have typed into the chat field
Inputs == {"", " ", "a"}

\* response.text of a narrative generation ("" stands for an empty or absent text)
StoryTexts == {"", "Once"}

\* response.text of a chat turn
ChatTexts == {"", "Go on"}

SeedText == "Tell me more about this world. Should we dive deeper into the characters or describe the setting further?"
ChatErrorText == "Error connecting to the Story Assistant."
ChatFallbackText == "I'm sorry, I couldn't process that."
StoryFallbackText == "Failed to generate story."
InkDryText == "The ink has run dry... Please try again."

\* x || fallback, on strings
OrElse(x, fallback) == IF x = "" THEN fallback ELSE x

\* base64Data.split(',')[1]
SplitData(url) == url[2]

\* String.prototype.trim on the texts of Inputs
Trim(s) == IF s = " " THEN "" ELSE s

\* a list without its i-th element
RemoveAt(s, i) == [j \in 1..(Len(s) - 1) |-> IF j < i THEN s[j] ELSE s[j + 1]]

----------------------------------------------------------------------------
(* Structured responses: JSON.parse on the response texts the model draws *)

JStr(s) == [str |-> s]
JNum(n) == [num |-> n]
JArray(items) == [t |-> "array", items |-> items]
JOther(kind) == [t |-> kind, items |-> <<>>]

ValidThree ==
    << [type |-> JStr("plot"), text |-> JStr("p")],
       [type |-> JStr("character"), text |-> JStr("c")],
       [type |-> JStr("setting"), text |-> JStr("s")] >>

\* response.text of a suggestion generation
SuggestTexts ==
    { "",
      "[]",
      "Here are three ideas:",
      "{\"type\":\"plot\",\"text\":\"p\"}",
      "7",
      "[{\"type\":\"plot\"}]",
      "[{\"type\":\"plot\",\"text\":7}]",
      "[{\"type\":\"plot\",\"text\":\"p\"},{\"type\":\"character\",\"text\":\"c\"},{\"type\":\"setting\",\"text\":\"s\"}]" }

\* JSON.parse: the parsed value, or ok = FALSE when it throws a SyntaxError
JSONParse(text) ==
    CASE text = "[]" -> [ok |-> TRUE, value |-> JArray(<<>>)]
      [] text = "{\"type\":\"plot\",\"text\":\"p\"}" ->
            [ok |-> TRUE, value |-> JOther("object")]
      [] text = "7" -> [ok |-> TRUE, value |-> JOther("number")]
      [] text = "[{\"type\":\"plot\"}]" ->
            [ok |-> TRUE, value |-> JArray(<< [type |-> JStr("plot")] >>)]
      [] text = "[{\"type\":\"plot\",\"text\":7}]" ->
            [ok |-> TRUE, value |-> JArray(<< [type |-> JStr("plot"), text |-> JNum(7)] >>)]
      [] text = "[{\"type\":\"plot\",\"text\":\"p\"},{\"type\":\"character\",\"text\":\"c\"},{\"type\":\"setting\",\"text\":\"s\"}]" ->
            [ok |-> TRUE, value |-> JArray(ValidThree)]
      [] OTHER -> [ok |-> FALSE, value |-> JArray(<<>>)]

\* generateStorySuggestions, after the service answered:
\* try { return JSON.parse(response.text || "[]") } catch { return [] }
ParseSuggestions(text) ==
    LET r == JSONParse(OrElse(text, "[]"))
    IN  IF r.ok THEN r.value ELSE JArray(<<>>)

----------------------------------------------------------------------------
(* Initial state: App's useState initialisers, ChatBot mounted on the chat tab *)

SeedTurn == [role |-> "model", text |-> SeedText]

InitialStoryState ==
    [ image |-> NoMedia,
      mediaMimeType |-> NoMime,
      paragraph |-> "",
      title |-> "",
      isAnalyzing |-> FALSE,
      isReading |-> FALSE,
      language |-> "English",
      suggestions |-> JArray(<<>>),
      isGeneratingSuggestions |-> FALSE ]

\* a buffer of bytes and a channel count on which no codec function has run yet
CodecCase(data, numChannels) ==
    [ data |-> data,
      numChannels |-> numChannels,
      ran |-> {},
      decoded |-> [ok |-> FALSE, bytes |-> <<>>],
      audio |-> [ok |-> FALSE, channels |-> <<>>] ]

\* the two components as constructed
InitProgram ==
    /\ state = InitialStoryState
    /\ activeTab = "chat"
    /\ audioContextRef = FALSE
    /\ audioSourceRef = 0
    /\ sources = <<>>
    /\ messages = <<SeedTurn>>
    /\ input = ""
    /\ isLoading = FALSE
    /\ analyzeCalls = <<>>
    /\ suggestCalls = <<>>
    /\ chatCalls = <<>>
    /\ narrateCalls = <<>>

Init ==
    /\ InitProgram
    /\ codec = CodecCase(<<>>, 1)

----------------------------------------------------------------------------
(* ChatBot mounting: App renders <ChatBot/> only while activeTab is 'chat' *)

\* A call issued by a ChatBot instance that has been unmounted since: React
\* drops the state updates of its continuation.
Orphaned(calls) == [i \in 1..Len(calls) |-> [calls[i] EXCEPT !.live = FALSE]]

\* setActiveTab(tab) and the render that follows: leaving 'chat' unmounts the
\* ChatBot instance, whose state is discarded; the next instance starts from
\* its useState initialisers.
ShowTab(tab) ==
    /\ activeTab' = tab
    /\ IF activeTab = "chat" /\ tab # "chat"
         THEN /\ messages' = <<SeedTurn>>
              /\ input' = ""
              /\ isLoading' = FALSE
              /\ chatCalls' = Orphaned(chatCalls)
         ELSE UNCHANGED <<messages, input, isLoading, chatCalls>>

\* the Assistant and Sparks tab buttons
SetActiveTab(tab) ==
    /\ tab # activeTab
    /\ ShowTab(tab)
    /\ UNCHANGED <<state, audioContextRef, audioSourceRef, sources,
                   analyzeCalls, suggestCalls, narrateCalls>>
    /\ UNCHANGED codec

----------------------------------------------------------------------------
(* Media: upload and paste *)

\* a load that starts the session over: everything but the media as App
\* initialises it, the language and the pending flags included
MediaLoadedFresh(m) ==
    [InitialStoryState EXCEPT !.image = m.url,
                              !.mediaMimeType = m.type]

\* the setState of reader.onloadend / reader.onload
MediaLoaded(m) ==
    [state EXCEPT !.image = m.url,
                  !.mediaMimeType = m.type,
                  !.paragraph = "",
                  !.title = "",
                  !.suggestions = JArray(<<>>)]

\* handleMediaUpload: the chosen file has been read
HandleMediaUpload(m) ==
    /\ state' = MediaLoaded(m)
    /\ UNCHANGED <<activeTab, audioContextRef, audioSourceRef, sources>>
    /\ UNCHANGED chatVars
    /\ UNCHANGED callVars
    /\ UNCHANGED codec

\* clipboard items: a media item, or some other item such as plain text
ClipboardItems == Media \cup {[url |-> NoMedia, type |-> "text/plain"]}

\* items[i].type.indexOf('image') !== -1 || items[i].type.indexOf('video') !== -1
IsMediaItem(item) == item.type \in {m.type : m \in Media}

\* the index of the first image or video item, 0 when there is none
FirstMediaItem(items) ==
    LET hits == {i \in 1..Len(items) : IsMediaItem(items[i])}
    IN  IF hits = {} THEN 0 ELSE CHOOSE i \in hits : \A j \in hits : i <= j

\* handlePaste: the first image or video item has been read; the others are ignored
HandlePaste(items) ==
    /\ FirstMediaItem(items) # 0
    /\ state' = MediaLoaded(items[FirstMediaItem(items)])
    /\ UNCHANGED <<activeTab, audioContextRef, audioSourceRef, sources>>
    /\ UNCHANGED chatVars
    /\ UNCHANGED callVars
    /\ UNCHANGED codec

\* handleLanguageChange
HandleLanguageChange(lang) ==
    /\ lang # state.language
    /\ state' = [state EXCEPT !.language = lang]
    /\ UNCHANGED <<activeTab, audioContextRef, audioSourceRef, sources>>
    /\ UNCHANGED chatVars
    /\ UNCHANGED callVars
    /\ UNCHANGED codec

\* the title input's onChange
SetTitle(t) ==
    /\ t # state.title
    /\ state' = [state EXCEPT !.title = t]
    /\ UNCHANGED <<activeTab, audioContextRef, audioSourceRef, sources>>
    /\ UNCHANGED chatVars
    /\ UNCHANGED callVars
    /\ UNCHANGED codec

----------------------------------------------------------------------------
(* The generative service: a call in flight is answered or fails *)

\* what the service may do with a pending call whose payload is drawn from
\* payloads; a rejected call carries no payload (none)
Answers(payloads, none) ==
    {[status |-> "rejected", text |-> none]}
        \cup {[status |-> "resolved", text |-> t] : t \in payloads}

Settled(calls, i, answer) ==
    [calls EXCEPT ![i].status = answer.status, ![i].text = answer.text]

\* mimeType.startsWith('video') ? 'video' : 'image'
MediaKind(mimeType) == IF mimeType = "video/mp4" THEN "video" ELSE "image"

\* the inline media part of a request
MediaPart(base64Data, mimeType) ==
    [inlineData |-> [mimeType |-> mimeType, data |-> SplitData(base64Data)]]

----------------------------------------------------------------------------
(* Narrative generation *)

\* generateStoryFromMedia: contents of the request
StoryRequest(base64Data, mimeType, language) ==
    << MediaPart(base64Data, mimeType),
       [text |-> <<"opening paragraph", MediaKind(mimeType), language>>] >>

\* the two triggers of handleAnalyze: the main button is disabled when
\* !state.image || state.isAnalyzing; the Regenerate icon is rendered when
\* state.paragraph is set and disabled when state.isAnalyzing
AnalyzeTriggerEnabled ==
    \/ state.image # NoMedia /\ ~state.isAnalyzing
    \/ state.paragraph # "" /\ ~state.isAnalyzing

\* handleAnalyze up to its await
HandleAnalyze ==
    /\ AnalyzeTriggerEnabled
    /\ ~(state.image = NoMedia \/ state.mediaMimeType = NoMime)
    /\ Len(analyzeCalls) < MaxInFlight
    /\ state' = [state EXCEPT !.isAnalyzing = TRUE,
                              !.paragraph = "",
                              !.suggestions = JArray(<<>>)]
    /\ analyzeCalls' = Append(analyzeCalls,
            [ image |-> state.image,
              mimeType |-> state.mediaMimeType,
              language |-> state.language,
              request |-> StoryRequest(state.image, state.mediaMimeType, state.language),
              status |-> "pending",
              text |-> "" ])
    /\ UNCHANGED <<activeTab, audioContextRef, audioSourceRef, sources>>
    /\ UNCHANGED chatVars
    /\ UNCHANGED <<suggestCalls, chatCalls, narrateCalls>>
    /\ UNCHANGED codec

\* the service settles a narrative generation
AnalyzeSettle(i, answer) ==
    /\ analyzeCalls[i].status = "pending"
    /\ analyzeCalls' = Settled(analyzeCalls, i, answer)
    /\ UNCHANGED appVars
    /\ UNCHANGED chatVars
    /\ UNCHANGED <<suggestCalls, chatCalls, narrateCalls>>
    /\ UNCHANGED codec

\* the outcome of handleAnalyze when generateStoryFromMedia returns
\* response.text as it is, without its || "Failed to generate story."
AnalyzeOutcomeNoFallback(c) ==
    IF c.status = "resolved"
      THEN [state EXCEPT !.paragraph = c.text,
                         !.isAnalyzing = FALSE]
      ELSE [state EXCEPT !.isAnalyzing = FALSE,
                         !.paragraph = InkDryText]

\* the state handleAnalyze sets after its await: the try branch, or the catch
AnalyzeOutcome(c) ==
    IF c.status = "resolved"
      THEN [state EXCEPT !.paragraph = OrElse(c.text, StoryFallbackText),
                         !.isAnalyzing = FALSE]
      ELSE [state EXCEPT !.isAnalyzing = FALSE,
                         !.paragraph = InkDryText]

\* handleAnalyze after its await
AnalyzeDone(i) ==
    /\ analyzeCalls[i].status # "pending"
    /\ state' = AnalyzeOutcome(analyzeCalls[i])
    /\ analyzeCalls' = RemoveAt(analyzeCalls, i)
    /\ UNCHANGED <<activeTab, audioContextRef, audioSourceRef, sources>>
    /\ UNCHANGED chatVars
    /\ UNCHANGED <<suggestCalls, chatCalls, narrateCalls>>
    /\ UNCHANGED codec

----------------------------------------------------------------------------
(* Suggestion generation *)

\* generateStorySuggestions: contents of the request
SuggestRequest(base64Data, mimeType, paragraph, language) ==
    LET prompt == [text |-> <<"3 suggestions", MediaKind(mimeType), paragraph, language>>]
    IN  IF base64Data # NoMedia /\ mimeType # NoMime
          THEN <<MediaPart(base64Data, mimeType), prompt>>
          ELSE <<prompt>>

\* handleGetSuggestions without its test of isGeneratingSuggestions
CanGetSuggestionsUnguarded == state.paragraph # ""

\* if (!state.paragraph || state.isGeneratingSuggestions) return
CanGetSuggestions == ~(state.paragraph = "" \/ state.isGeneratingSuggestions)

\* handleGetSuggestions up to its await
HandleGetSuggestions ==
    /\ CanGetSuggestions
    /\ Len(suggestCalls) < MaxInFlight
    /\ state' = [state EXCEPT !.isGeneratingSuggestions = TRUE]
    /\ suggestCalls' = Append(suggestCalls,
            [ image |-> state.image,
              mimeType |-> state.mediaMimeType,
              paragraph |-> state.paragraph,
              language |-> state.language,
              request |-> SuggestRequest(state.image, state.mediaMimeType,
                                         state.paragraph, state.language),
              status |-> "pending",
              text |-> "" ])
    /\ UNCHANGED <<activeTab, audioContextRef, audioSourceRef, sources>>
    /\ UNCHANGED chatVars
    /\ UNCHANGED <<analyzeCalls, chatCalls, narrateCalls>>
    /\ UNCHANGED codec

\* the service settles a suggestion generation
SuggestSettle(i, answer) ==
    /\ suggestCalls[i].status = "pending"
    /\ suggestCalls' = Settled(suggestCalls, i, answer)
    /\ UNCHANGED appVars
    /\ UNCHANGED chatVars
    /\ UNCHANGED <<analyzeCalls, chatCalls, narrateCalls>>
    /\ UNCHANGED codec

\* the outcome of handleGetSuggestions when the sparks of a call are added to
\* the list ([...prev.suggestions, ...suggestions]) instead of replacing it
SuggestOutcomeMerged(c) ==
    IF c.status = "resolved"
      THEN [state EXCEPT
                !.suggestions = JArray(state.suggestions.items \o ParseSuggestions(c.text).items),
                !.isGeneratingSuggestions = FALSE]
      ELSE [state EXCEPT !.isGeneratingSuggestions = FALSE]

\* the state handleGetSuggestions sets after its await: the try branch, or the catch
SuggestOutcome(c) ==
    IF c.status = "resolved"
      THEN [state EXCEPT !.suggestions = ParseSuggestions(c.text),
                         !.isGeneratingSuggestions = FALSE]
      ELSE [state EXCEPT !.isGeneratingSuggestions = FALSE]

\* handleGetSuggestions after its await; success also does setActiveTab('sparks')
SuggestDone(i) ==
    /\ suggestCalls[i].status # "pending"
    /\ state' = SuggestOutcome(suggestCalls[i])
    /\ suggestCalls' = RemoveAt(suggestCalls, i)
    /\ IF suggestCalls[i].status = "resolved"
         THEN ShowTab("sparks")
         ELSE UNCHANGED <<activeTab, messages, input, isLoading, chatCalls>>
    /\ UNCHANGED <<audioContextRef, audioSourceRef, sources>>
    /\ UNCHANGED <<analyzeCalls, narrateCalls>>
    /\ UNCHANGED codec

----------------------------------------------------------------------------
(* BinaryTextCodec (encode, decode) and PCM decoding *)

\* the base64 alphabet; a text is a sequence of one-character strings
B64Alphabet ==
    << "A", "B", "C", "D", "E", "F", "G", "H", "I", "J", "K", "L", "M",
       "N", "O", "P", "Q", "R", "S", "T", "U", "V", "W", "X", "Y", "Z",
       "a", "b", "c", "d", "e", "f", "g", "h", "i", "j", "k", "l", "m",
       "n", "o", "p", "q", "r", "s", "t", "u", "v", "w", "x", "y", "z",
       "0", "1", "2", "3", "4", "5", "6", "7", "8", "9", "+", "/" >>

IsB64Char(c) == \E i \in 1..Len(B64Alphabet) : B64Alphabet[i] = c

\* the 6-bit value of an alphabet character
B64Value(c) == (CHOOSE i \in 1..Len(B64Alphabet) : B64Alphabet[i] = c) - 1

Pow2(n) == IF n = 0 THEN 1 ELSE IF n = 2 THEN 4 ELSE 16

\* atob: the binary string as its character codes, or ok = FALSE when it
\* throws InvalidCharacterError
Atob(text) ==
    LET n == Len(text)
        pad == IF n % 4 = 0 /\ n >= 2 /\ text[n] = "=" /\ text[n - 1] = "=" THEN 2
               ELSE IF n % 4 = 0 /\ n >= 1 /\ text[n] = "=" THEN 1
               ELSE 0
        body == SubSeq(text, 1, n - pad)
        m == Len(body)
        good == m % 4 # 1 /\ \A i \in 1..m : IsB64Char(body[i])
        nbytes == (m * 6) \div 8
        byteAt(k) ==
            LET a == (8 * k) \div 6
                o == 8 * k - 6 * a
                pair == B64Value(body[a + 1]) * 64 + B64Value(body[a + 2])
            IN  (pair \div Pow2(4 - o)) % 256
    IN  IF good
          THEN [ok |-> TRUE, codes |-> [k \in 1..nbytes |-> byteAt(k - 1)]]
          ELSE [ok |-> FALSE, codes |-> <<>>]

\* btoa: the base64 text of a binary string given as its character codes, or
\* ok = FALSE when it throws InvalidCharacterError (a code above 255)
Btoa(codes) ==
    LET n == Len(codes)
        nchars == (8 * n + 5) \div 6
        at(k) == IF k <= n THEN codes[k] ELSE 0
        shift(o) == IF o = 0 THEN 1024 ELSE IF o = 2 THEN 256 ELSE IF o = 4 THEN 64 ELSE 16
        charAt(j) ==
            LET a == (6 * j) \div 8
                o == 6 * j - 8 * a
                pair == at(a + 1) * 256 + at(a + 2)
            IN  B64Alphabet[((pair \div shift(o)) % 64) + 1]
        padding == IF n % 3 = 1 THEN <<"=", "=">>
                   ELSE IF n % 3 = 2 THEN <<"=">>
                   ELSE <<>>
    IN  IF \A k \in 1..n : codes[k] <= 255
          THEN [ok |-> TRUE, text |-> [j \in 1..nchars |-> charAt(j - 1)] \o padding]
          ELSE [ok |-> FALSE, text |-> <<>>]

\* encode: binary += String.fromCharCode(bytes[i]), then btoa(binary)
Encode(bytes) == Btoa([i \in 1..Len(bytes) |-> bytes[i]])

\* decode with the character codes kept to seven bits, as for ASCII text
DecodeSevenBit(base64) ==
    LET bin == Atob(base64)
    IN  [ok |-> bin.ok, bytes |-> [i \in 1..Len(bin.codes) |-> bin.codes[i] % 128]]

\* decode over a lenient base64 reader: a character outside the alphabet is
\* read as "A" (six zero bits) instead of being refused
DecodeLenient(base64) ==
    LET bin == Atob([k \in 1..Len(base64) |->
                        IF IsB64Char(base64[k]) \/ base64[k] = "=" THEN base64[k] ELSE "A"])
    IN  [ok |-> bin.ok, bytes |-> [i \in 1..Len(bin.codes) |-> bin.codes[i] % 256]]

\* decode: bytes[i] = binaryString.charCodeAt(i), stored in a Uint8Array
Decode(base64) ==
    LET bin == Atob(base64)
    IN  [ok |-> bin.ok, bytes |-> [i \in 1..Len(bin.codes) |-> bin.codes[i] % 256]]

\* element k (from 0) of new Int16Array(data.buffer): little-endian, signed
Int16At(data, k) ==
    LET u == data[2 * k + 1] + 256 * data[2 * k + 2]
    IN  IF u >= 32768 THEN u - 65536 ELSE u

\* decodeAudioData: the channels of the AudioBuffer, each sample as the
\* numerator of sample / 32768.0; ok = FALSE when new Int16Array throws a
\* RangeError (odd byte length) or createBuffer a NotSupportedError (no frame)
DecodeAudioData(data, numChannels) ==
    LET aligned == Len(data) % 2 = 0
        total == Len(data) \div 2
        frameCount == total \div numChannels
    IN  IF aligned /\ frameCount >= 1
          THEN [ok |-> TRUE,
                channels |-> [c \in 1..numChannels |->
                    [i \in 1..frameCount |->
                        Int16At(data, (i - 1) * numChannels + (c - 1))]]]
          ELSE [ok |-> FALSE, channels |-> <<>>]

\* the byte values the buffers are drawn from: both ends of the range and the
\* first value with the top bit set
Bytes == {0, 128, 255}

\* numChannels: 1 is what handleReadAloud passes, 2 makes the interleave visible
ChannelCounts == {1, 2}

ByteBuffers == UNION {[1..n -> Bytes] : n \in 0..MaxBytes}

\* the codec functions are applied to one buffer, the components left as constructed
InitCodec ==
    /\ InitProgram
    /\ codec \in {CodecCase(data, n) : data \in ByteBuffers, n \in ChannelCounts}

\* decode(encode(codec.data))
RunEncodeDecode ==
    /\ "decode" \notin codec.ran
    /\ codec' = [codec EXCEPT
            !.ran = @ \cup {"decode"},
            !.decoded = LET e == Encode(codec.data)
                        IN  IF e.ok THEN Decode(e.text)
                                    ELSE [ok |-> FALSE, bytes |-> <<>>]]
    /\ UNCHANGED <<appVars, chatVars, callVars>>

\* decodeAudioData(codec.data, ctx, sampleRate, codec.numChannels)
RunDecodeAudioData ==
    /\ "decodeAudioData" \notin codec.ran
    /\ codec' = [codec EXCEPT
            !.ran = @ \cup {"decodeAudioData"},
            !.audio = DecodeAudioData(codec.data, codec.numChannels)]
    /\ UNCHANGED <<appVars, chatVars, callVars>>

----------------------------------------------------------------------------
(* Narration and playback *)

\* inlineData.data of a narration response: absent, a sample of two bytes,
\* three bytes (an odd PCM length), and a text outside the alphabet
AudioPayloads ==
    { <<>>,
      <<"A", "A", "E", "=">>,
      <<"A", "A", "A", "A">>,
      <<"A", "*", "E", "=">> }

\* title ? `${title}. ${paragraph}` : paragraph, as the pieces of the text
TextToRead(title, paragraph) ==
    IF title # "" THEN <<title, ". ", paragraph>> ELSE <<paragraph>>

\* narrateText: contents of the request
NarrateRequest(text) == << [text |-> <<"Narrate">> \o text] >>

\* narrateText and decodeAudioData on a settled call: the AudioBuffer, or
\* ok = FALSE when the service failed, no audio was received, decode threw or
\* decodeAudioData threw
NarrationAudio(c) ==
    IF c.status # "resolved" \/ c.text = <<>>
      THEN [ok |-> FALSE, channels |-> <<>>]
      ELSE LET d == Decode(c.text)
           IN  IF d.ok THEN DecodeAudioData(d.bytes, 1)
                       ELSE [ok |-> FALSE, channels |-> <<>>]

\* a Read Aloud that does not ask for a paragraph
CanReadAloudAnyText == ~state.isReading

\* a Read Aloud that waits for the other App calls too: one pending slot for
\* narrative generation, suggestion generation and narration together
CanReadAloudOneSlot ==
    ~(state.paragraph = "" \/ state.isReading \/ state.isAnalyzing
        \/ state.isGeneratingSuggestions)

\* the Read Aloud button is disabled when !state.paragraph || state.isReading,
\* and handleReadAloud returns on the same condition
CanReadAloud == ~(state.paragraph = "" \/ state.isReading)

\* handleReadAloud up to its first await, without its setState of isReading
HandleReadAloudUnflagged ==
    /\ CanReadAloud
    /\ Len(narrateCalls) < MaxInFlight
    /\ Len(sources) + Len(narrateCalls) < MaxSources
    /\ audioContextRef' = TRUE
    /\ narrateCalls' = Append(narrateCalls,
            [ paragraph |-> state.paragraph,
              request |-> NarrateRequest(TextToRead(state.title, state.paragraph)),
              status |-> "pending",
              text |-> <<>> ])
    /\ UNCHANGED <<state, activeTab, audioSourceRef, sources>>
    /\ UNCHANGED chatVars
    /\ UNCHANGED <<analyzeCalls, suggestCalls, chatCalls>>
    /\ UNCHANGED codec

\* handleReadAloud up to its first await
HandleReadAloud ==
    /\ CanReadAloud
    /\ Len(narrateCalls) < MaxInFlight
    /\ Len(sources) + Len(narrateCalls) < MaxSources
    /\ audioContextRef' = TRUE
    /\ state' = [state EXCEPT !.isReading = TRUE]
    /\ narrateCalls' = Append(narrateCalls,
            [ paragraph |-> state.paragraph,
              request |-> NarrateRequest(TextToRead(state.title, state.paragraph)),
              status |-> "pending",
              text |-> <<>> ])
    /\ UNCHANGED <<activeTab, audioSourceRef, sources>>
    /\ UNCHANGED chatVars
    /\ UNCHANGED <<analyzeCalls, suggestCalls, chatCalls>>
    /\ UNCHANGED codec

\* the service settles a narration
NarrateSettle(i, answer) ==
    /\ narrateCalls[i].status = "pending"
    /\ narrateCalls' = Settled(narrateCalls, i, answer)
    /\ UNCHANGED appVars
    /\ UNCHANGED chatVars
    /\ UNCHANGED <<analyzeCalls, suggestCalls, chatCalls>>
    /\ UNCHANGED codec

\* if (audioSourceRef.current) audioSourceRef.current.stop(): a playing source
\* falls silent at once; its ended event is delivered later
StopPrevious(srcs, ref) ==
    IF ref # 0 /\ srcs[ref] = "playing"
      THEN [srcs EXCEPT ![ref] = "stopped"]
      ELSE srcs

\* handleReadAloud written the way handleSend is: no stop of the previous
\* source, and isReading cleared in a finally as soon as the source has started
ReadAloudDoneFinally(i) ==
    /\ narrateCalls[i].status # "pending"
    /\ narrateCalls' = RemoveAt(narrateCalls, i)
    /\ IF NarrationAudio(narrateCalls[i]).ok
         THEN /\ sources' = Append(sources, "playing")
              /\ audioSourceRef' = Len(sources) + 1
         ELSE UNCHANGED <<audioSourceRef, sources>>
    /\ state' = [state EXCEPT !.isReading = FALSE]
    /\ UNCHANGED <<activeTab, audioContextRef>>
    /\ UNCHANGED chatVars
    /\ UNCHANGED <<analyzeCalls, suggestCalls, chatCalls>>
    /\ UNCHANGED codec

\* handleReadAloud after its awaits: stop the previous source, start the new
\* one and keep it in audioSourceRef; or the catch
ReadAloudDone(i) ==
    /\ narrateCalls[i].status # "pending"
    /\ narrateCalls' = RemoveAt(narrateCalls, i)
    /\ IF NarrationAudio(narrateCalls[i]).ok
         THEN /\ sources' = Append(StopPrevious(sources, audioSourceRef), "playing")
              /\ audioSourceRef' = Len(sources) + 1
              /\ UNCHANGED state
         ELSE /\ state' = [state EXCEPT !.isReading = FALSE]
              /\ UNCHANGED <<audioSourceRef, sources>>
    /\ UNCHANGED <<activeTab, audioContextRef>>
    /\ UNCHANGED chatVars
    /\ UNCHANGED <<analyzeCalls, suggestCalls, chatCalls>>
    /\ UNCHANGED codec

\* a source whose onended has not been assigned: its end goes unheard
SourceEndedUnheard(s) ==
    /\ sources[s] \in {"playing", "stopped"}
    /\ sources' = [sources EXCEPT ![s] = "ended"]
    /\ UNCHANGED <<state, activeTab, audioContextRef, audioSourceRef>>
    /\ UNCHANGED chatVars
    /\ UNCHANGED callVars
    /\ UNCHANGED codec

\* source.onended: a source that played to its end, or was stopped, signals
\* completion
SourceEnded(s) ==
    /\ sources[s] \in {"playing", "stopped"}
    /\ sources' = [sources EXCEPT ![s] = "ended"]
    /\ state' = [state EXCEPT !.isReading = FALSE]
    /\ UNCHANGED <<activeTab, audioContextRef, audioSourceRef>>
    /\ UNCHANGED chatVars
    /\ UNCHANGED callVars
    /\ UNCHANGED codec

----------------------------------------------------------------------------
(* ChatBot *)

\* messages.map(m => ({ role: m.role, parts: [{ text: m.text }] }))
History(msgs) ==
    [i \in 1..Len(msgs) |-> [role |-> msgs[i].role, parts |-> <<[text |-> msgs[i].text]>>]]

\* chatWithStoryAssistant with the else of its media test missing: the text-only
\* turn is pushed after the media turn as well
ChatContentsNoElse(history, message, base64Data, mimeType) ==
    LET textTurn == [role |-> "user", parts |-> <<[text |-> message]>>]
    IN  IF base64Data # NoMedia /\ mimeType # NoMime
          THEN Append(Append(history,
                    [role |-> "user",
                     parts |-> <<MediaPart(base64Data, mimeType), [text |-> message]>>]),
                    textTurn)
          ELSE Append(history, textTurn)

\* chatWithStoryAssistant: contents of the request
ChatContents(history, message, base64Data, mimeType) ==
    IF base64Data # NoMedia /\ mimeType # NoMime
      THEN Append(history, [role |-> "user",
                            parts |-> <<MediaPart(base64Data, mimeType), [text |-> message]>>])
      ELSE Append(history, [role |-> "user", parts |-> <<[text |-> message]>>])

\* the caller's history array after a chatWithStoryAssistant in which contents
\* is the history array itself, not a copy: the pushed turn lands in it
HistoryAfterCallShared(history, message, base64Data, mimeType) ==
    ChatContents(history, message, base64Data, mimeType)

\* the caller's history array after chatWithStoryAssistant has built its
\* request: contents = [...history] is a copy, the push goes to the copy
HistoryAfterCall(history, message, base64Data, mimeType) == history

\* handleSend's guard without its test of isLoading
CanSendWhileLoading == ~(Trim(input) = "")

\* if (!input.trim() || isLoading) return
CanSend == ~(Trim(input) = "" \/ isLoading)

\* the text field's onChange
SetInput(t) ==
    /\ activeTab = "chat"
    /\ t # input
    /\ input' = t
    /\ UNCHANGED <<messages, isLoading>>
    /\ UNCHANGED appVars
    /\ UNCHANGED callVars
    /\ UNCHANGED codec

\* handleSend up to its await
HandleSend ==
    /\ activeTab = "chat"
    /\ CanSend
    /\ Len(messages) + 2 <= MaxTurns
    /\ Len(chatCalls) < MaxInFlight
    /\ input' = ""
    /\ messages' = Append(messages, [role |-> "user", text |-> input])
    /\ isLoading' = TRUE
    /\ chatCalls' = Append(chatCalls,
            [ live |-> TRUE,
              message |-> input,
              contents |-> ChatContents(History(messages), input,
                                        state.image, state.mediaMimeType),
              history |-> HistoryAfterCall(History(messages), input,
                                           state.image, state.mediaMimeType),
              status |-> "pending",
              text |-> "" ])
    /\ UNCHANGED appVars
    /\ UNCHANGED <<analyzeCalls, suggestCalls, narrateCalls>>
    /\ UNCHANGED codec

\* the service settles a chat turn
ChatSettle(i, answer) ==
    /\ chatCalls[i].status = "pending"
    /\ chatCalls' = Settled(chatCalls, i, answer)
    /\ UNCHANGED appVars
    /\ UNCHANGED chatVars
    /\ UNCHANGED <<analyzeCalls, suggestCalls, narrateCalls>>
    /\ UNCHANGED codec

\* the turn handleSend appends after its await: the try branch, or the catch
ChatReply(c) ==
    IF c.status = "resolved"
      THEN [role |-> "model", text |-> OrElse(c.text, ChatFallbackText)]
      ELSE [role |-> "model", text |-> ChatErrorText]

\* handleSend after its await, with its finally; the updates of an unmounted
\* instance are dropped
ChatDone(i) ==
    /\ chatCalls[i].status # "pending"
    /\ chatCalls' = RemoveAt(chatCalls, i)
    /\ IF chatCalls[i].live
         THEN /\ messages' = Append(messages, ChatReply(chatCalls[i]))
              /\ isLoading' = FALSE
         ELSE UNCHANGED <<messages, isLoading>>
    /\ UNCHANGED input
    /\ UNCHANGED appVars
    /\ UNCHANGED <<analyzeCalls, suggestCalls, narrateCalls>>
    /\ UNCHANGED codec

----------------------------------------------------------------------------
(* The program *)

Next ==
    \/ \E tab \in {"chat", "sparks"} : SetActiveTab(tab)
    \/ \E m \in Media : HandleMediaUpload(m)
    \/ \E a \in ClipboardItems, b \in ClipboardItems : HandlePaste(<<a, b>>)
    \/ \E lang \in AppLanguage : HandleLanguageChange(lang)
    \/ \E t \in Titles : SetTitle(t)
    \/ HandleAnalyze
    \/ \E i \in 1..Len(analyzeCalls), a \in Answers(StoryTexts, "") : AnalyzeSettle(i, a)
    \/ \E i \in 1..Len(analyzeCalls) : AnalyzeDone(i)
    \/ HandleGetSuggestions
    \/ \E i \in 1..Len(suggestCalls), a \in Answers(SuggestTexts, "") : SuggestSettle(i, a)
    \/ \E i \in 1..Len(suggestCalls) : SuggestDone(i)
    \/ HandleReadAloud
    \/ \E i \in 1..Len(narrateCalls), a \in Answers(AudioPayloads, <<>>) : NarrateSettle(i, a)
    \/ \E i \in 1..Len(narrateCalls) : ReadAloudDone(i)
    \/ \E s \in 1..Len(sources) : SourceEnded(s)
    \/ \E t \in Inputs : SetInput(t)
    \/ HandleSend
    \/ \E i \in 1..Len(chatCalls), a \in Answers(ChatTexts, "") : ChatSettle(i, a)
    \/ \E i \in 1..Len(chatCalls) : ChatDone(i)

\* the whole program
Spec == Init /\ [][Next]_vars

\* The App component with the ChatBot left idle: media, narrative generation,
\* suggestion generation, narration and playback, the tabs. The title and the
\* language stay as initialised: they only travel into requests, and no
\* guard, flag or completion of these handlers reads them.
NextApp ==
    \/ \E tab \in {"chat", "sparks"} : SetActiveTab(tab)
    \/ \E m \in Media : HandleMediaUpload(m)
    \/ \E a \in ClipboardItems, b \in ClipboardItems : HandlePaste(<<a, b>>)
    \/ HandleAnalyze
    \/ \E i \in 1..Len(analyzeCalls), a \in Answers(StoryTexts, "") : AnalyzeSettle(i, a)
    \/ \E i \in 1..Len(analyzeCalls) : AnalyzeDone(i)
    \/ HandleGetSuggestions
    \/ \E i \in 1..Len(suggestCalls), a \in Answers(SuggestTexts, "") : SuggestSettle(i, a)
    \/ \E i \in 1..Len(suggestCalls) : SuggestDone(i)
    \/ HandleReadAloud
    \/ \E i \in 1..Len(narrateCalls), a \in Answers(AudioPayloads, <<>>) : NarrateSettle(i, a)
    \/ \E i \in 1..Len(narrateCalls) : ReadAloudDone(i)
    \/ \E s \in 1..Len(sources) : SourceEnded(s)

SpecApp == Init /\ [][NextApp]_vars

\* The ChatBot component under the tabs and with the media it is handed as
\* props. The other handlers of App write none of the variables ChatBot
\* reads, except activeTab, which the tab buttons cover here. ChatBot passes
\* the media on without looking at its kind, so one piece of media stands for
\* both.
NextChat ==
    \/ \E tab \in {"chat", "sparks"} : SetActiveTab(tab)
    \/ \E m \in {m \in Media : m.type = "image/png"} : HandleMediaUpload(m)
    \/ \E t \in Inputs : SetInput(t)
    \/ HandleSend
    \/ \E i \in 1..Len(chatCalls), a \in Answers(ChatTexts, "") : ChatSettle(i, a)
    \/ \E i \in 1..Len(chatCalls) : ChatDone(i)

SpecChat == Init /\ [][NextChat]_vars

\* App and ChatBot side by side, so that calls of all four action types are in
\* flight together: the handlers of both components that issue and complete
\* calls, under one piece of media and one non-blank chat input, with the
\* service answering each call with one payload or failing. The tab changes
\* only through a successful suggestion generation; the tab buttons are
\* covered by SpecApp and SpecChat.
NextSession ==
    \/ \E m \in {m \in Media : m.type = "image/png"} : HandleMediaUpload(m)
    \/ HandleAnalyze
    \/ \E i \in 1..Len(analyzeCalls), a \in Answers(StoryTexts, "") : AnalyzeSettle(i, a)
    \/ \E i \in 1..Len(analyzeCalls) : AnalyzeDone(i)
    \/ HandleGetSuggestions
    \/ \E i \in 1..Len(suggestCalls), a \in Answers({""}, "") : SuggestSettle(i, a)
    \/ \E i \in 1..Len(suggestCalls) : SuggestDone(i)
    \/ HandleReadAloud
    \/ \E i \in 1..Len(narrateCalls), a \in Answers({<<"A", "A", "E", "=">>}, <<>>) :
            NarrateSettle(i, a)
    \/ \E i \in 1..Len(narrateCalls) : ReadAloudDone(i)
    \/ \E s \in 1..Len(sources) : SourceEnded(s)
    \/ \E t \in {"", "a"} : SetInput(t)
    \/ HandleSend
    \/ \E i \in 1..Len(chatCalls), a \in Answers({"Go on"}, "") : ChatSettle(i, a)
    \/ \E i \in 1..Len(chatCalls) : ChatDone(i)

SpecSession == Init /\ [][NextSession]_vars

\* App and ChatBot side by side under fairness, kept small: one piece of
\* media, one chat input, one payload per call, and the user sends only the
\* first message of a transcript. The service settles every call it has been
\* sent, the event loop runs every continuation that is due, and every
\* started source comes to its end; the user is under no obligation.
NextLive ==
    \/ \E m \in {m \in Media : m.type = "image/png"} : HandleMediaUpload(m)
    \/ HandleAnalyze
    \/ \E i \in 1..Len(analyzeCalls), a \in Answers({"Once"}, "") : AnalyzeSettle(i, a)
    \/ \E i \in 1..Len(analyzeCalls) : AnalyzeDone(i)
    \/ HandleGetSuggestions
    \/ \E i \in 1..Len(suggestCalls), a \in Answers({""}, "") : SuggestSettle(i, a)
    \/ \E i \in 1..Len(suggestCalls) : SuggestDone(i)
    \/ HandleReadAloud
    \/ \E i \in 1..Len(narrateCalls), a \in Answers({<<"A", "A", "E", "=">>}, <<>>) :
            NarrateSettle(i, a)
    \/ \E i \in 1..Len(narrateCalls) : ReadAloudDone(i)
    \/ \E s \in 1..Len(sources) : SourceEnded(s)
    \/ \E t \in {"a"} : SetInput(t)
    \/ Len(messages) = 1 /\ HandleSend
    \/ \E i \in 1..Len(chatCalls), a \in Answers({"Go on"}, "") : ChatSettle(i, a)
    \/ \E i \in 1..Len(chatCalls) : ChatDone(i)

FairLive ==
    /\ WF_vars(\E i \in 1..Len(analyzeCalls), a \in Answers({"Once"}, "") : AnalyzeSettle(i, a))
    /\ WF_vars(\E i \in 1..Len(analyzeCalls) : AnalyzeDone(i))
    /\ WF_vars(\E i \in 1..Len(suggestCalls), a \in Answers({""}, "") : SuggestSettle(i, a))
    /\ WF_vars(\E i \in 1..Len(suggestCalls) : SuggestDone(i))
    /\ WF_vars(\E i \in 1..Len(narrateCalls), a \in Answers({<<"A", "A", "E", "=">>}, <<>>) :
                    NarrateSettle(i, a))
    /\ WF_vars(\E i \in 1..Len(narrateCalls) : ReadAloudDone(i))
    /\ WF_vars(\E s \in 1..Len(sources) : SourceEnded(s))
    /\ WF_vars(\E i \in 1..Len(chatCalls), a \in Answers({"Go on"}, "") : ChatSettle(i, a))
    /\ WF_vars(\E i \in 1..Len(chatCalls) : ChatDone(i))

SpecLive == Init /\ [][NextLive]_vars /\ FairLive

\* The App component with its title and language editable, so that an upload
\* or a paste meets every combination of title, language, paragraph,
\* suggestions and pending flags; the service answers each call with one
\* payload or fails.
NextMedia ==
    \/ \E m \in Media : HandleMediaUpload(m)
    \/ \E a \in ClipboardItems, b \in ClipboardItems : HandlePaste(<<a, b>>)
    \/ \E lang \in AppLanguage : HandleLanguageChange(lang)
    \/ \E t \in Titles : SetTitle(t)
    \/ HandleAnalyze
    \/ \E i \in 1..Len(analyzeCalls), a \in Answers({"Once"}, "") : AnalyzeSettle(i, a)
    \/ \E i \in 1..Len(analyzeCalls) : AnalyzeDone(i)
    \/ HandleGetSuggestions
    \/ \E i \in 1..Len(suggestCalls),
          a \in Answers({t \in SuggestTexts : ParseSuggestions(t) = JArray(ValidThree)}, "") :
            SuggestSettle(i, a)
    \/ \E i \in 1..Len(suggestCalls) : SuggestDone(i)
    \/ HandleReadAloud
    \/ \E i \in 1..Len(narrateCalls), a \in Answers({<<"A", "A", "E", "=">>}, <<>>) :
            NarrateSettle(i, a)
    \/ \E i \in 1..Len(narrateCalls) : ReadAloudDone(i)
    \/ \E s \in 1..Len(sources) : SourceEnded(s)

SpecMedia == Init /\ [][NextMedia]_vars

\* The pure functions of geminiService on their own: encode, decode and
\* decodeAudioData applied to every buffer of up to MaxBytes bytes.
NextCodec ==
    \/ RunEncodeDecode
    \/ RunDecodeAudioData

SpecCodec == InitCodec /\ [][NextCodec]_vars

----------------------------------------------------------------------------
(* Properties *)

\* the sources that are audible
Playing == {s \in 1..Len(sources) : sources[s] = "playing"}

\* s is a prefix of t
IsPrefix(s, t) == Len(s) <= Len(t) /\ SubSeq(t, 1, Len(s)) = s

\* C1: at most one audio source is playing in every reachable state, and it is
\* the one handleReadAloud started last: every source started before it has
\* ended or been stopped.
C1_NoOverlappingPlayback ==
    /\ Cardinality(Playing) <= 1
    /\ \A s \in Playing : s = audioSourceRef /\ s = Len(sources)

\* a second narration is playing after the first one
C1_SecondSourcePlaying ==
    /\ Len(sources) = 2
    /\ sources[2] = "playing"
    /\ audioSourceRef = 2

\* C2: the transcript is append-only: in every step, whatever the user event,
\* every turn of the transcript stays in it at its position.
C2_TranscriptAppendOnly == [][IsPrefix(messages, messages')]_vars

\* C3: when chatWithStoryAssistant fails, the rest of handleSend appends no
\* turn to the transcript.
C3_NoTurnAfterFailure ==
    [][\A i \in 1..Len(chatCalls) :
          (chatCalls[i].status = "rejected" /\ chatCalls' = RemoveAt(chatCalls, i))
              => messages' = messages]_vars

\* C4: at most one chat-turn service call is outstanding in every reachable
\* state, also after the chat panel was hidden and shown again.
C4_OneChatCallOutstanding == Len(chatCalls) <= 1

\* C5: at most one narrative generation, one suggestion generation and one
\* narration are outstanding in every reachable state, and while the pending
\* flag of an action type is set its handler cannot start another call.
C5_OneCallPerActionType ==
    /\ Len(analyzeCalls) <= 1
    /\ Len(suggestCalls) <= 1
    /\ Len(narrateCalls) <= 1
    /\ Len(analyzeCalls) = 1 => state.isAnalyzing
    /\ Len(suggestCalls) = 1 => state.isGeneratingSuggestions
    /\ Len(narrateCalls) = 1 => state.isReading
    /\ state.isAnalyzing => ~ENABLED HandleAnalyze
    /\ state.isGeneratingSuggestions => ~ENABLED HandleGetSuggestions
    /\ state.isReading => ~ENABLED HandleReadAloud

\* the three action types each have a call in flight
C5_AllThreeInFlight ==
    /\ Len(analyzeCalls) = 1
    /\ Len(suggestCalls) = 1
    /\ Len(narrateCalls) = 1

\* C6: whenever a completing narrative generation sets the paragraph, the media
\* held in session state is the media the call was issued with.
C6_ParagraphOfCurrentMedia ==
    [][\A i \in 1..Len(analyzeCalls) :
          (analyzeCalls[i].status # "pending" /\ analyzeCalls' = RemoveAt(analyzeCalls, i))
              => /\ state'.image = analyzeCalls[i].image
                 /\ state'.mediaMimeType = analyzeCalls[i].mimeType]_vars

SuggestionKinds == {"plot", "character", "setting"}

\* v is an array of {type, text} objects, type one of the kinds and text a string
IsSuggestionArray(v) ==
    /\ v.t = "array"
    /\ \A k \in 1..Len(v.items) :
          /\ DOMAIN v.items[k] = {"type", "text"}
          /\ v.items[k].type \in {JStr(x) : x \in SuggestionKinds}
          /\ DOMAIN v.items[k].text = {"str"}

\* the response text is JSON that holds an array of suggestions
IsValidSuggestionText(text) ==
    JSONParse(text).ok /\ IsSuggestionArray(JSONParse(text).value)

\* C7: when the response text of a suggestion generation is invalid JSON, is
\* not an array, or holds an element with a missing or ill-typed field, the
\* suggestions list of the session becomes the empty list.
C7_MalformedResponseGivesEmptyList ==
    [][\A i \in 1..Len(suggestCalls) :
          ( /\ suggestCalls[i].status = "resolved"
            /\ ~IsValidSuggestionText(suggestCalls[i].text)
            /\ suggestCalls' = RemoveAt(suggestCalls, i) )
              => state'.suggestions = JArray(<<>>)]_vars

\* C8: when the service call of an action fails, the rest of its handler
\* clears the pending flag of that action and changes no other pending flag.
C8_FailureClearsOwnFlagOnly ==
    [][ /\ \A i \in 1..Len(analyzeCalls) :
              (analyzeCalls[i].status = "rejected" /\ analyzeCalls' = RemoveAt(analyzeCalls, i))
                  => /\ ~state'.isAnalyzing
                     /\ state'.isGeneratingSuggestions = state.isGeneratingSuggestions
                     /\ state'.isReading = state.isReading
                     /\ isLoading' = isLoading
        /\ \A i \in 1..Len(suggestCalls) :
              (suggestCalls[i].status = "rejected" /\ suggestCalls' = RemoveAt(suggestCalls, i))
                  => /\ ~state'.isGeneratingSuggestions
                     /\ state'.isAnalyzing = state.isAnalyzing
                     /\ state'.isReading = state.isReading
                     /\ isLoading' = isLoading
        /\ \A i \in 1..Len(chatCalls) :
              (chatCalls[i].status = "rejected" /\ chatCalls' = RemoveAt(chatCalls, i))
                  => /\ ~isLoading'
                     /\ state' = state
        /\ \A i \in 1..Len(narrateCalls) :
              (narrateCalls[i].status = "rejected" /\ narrateCalls' = RemoveAt(narrateCalls, i))
                  => /\ ~state'.isReading
                     /\ state'.isAnalyzing = state.isAnalyzing
                     /\ state'.isGeneratingSuggestions = state.isGeneratingSuggestions
                     /\ isLoading' = isLoading ]_vars

\* what the page shows as text: the paragraph, the title, the sparks, the chat
VisibleText == <<state.paragraph, state.title, state.suggestions, messages>>

\* C9: every failed service call, of each of the four action types, puts a
\* message on the page: the rest of its handler changes the text the page shows.
C9_FailureShowsMessage ==
    [][ /\ \A i \in 1..Len(analyzeCalls) :
              (analyzeCalls[i].status = "rejected" /\ analyzeCalls' = RemoveAt(analyzeCalls, i))
                  => VisibleText' # VisibleText
        /\ \A i \in 1..Len(suggestCalls) :
              (suggestCalls[i].status = "rejected" /\ suggestCalls' = RemoveAt(suggestCalls, i))
                  => VisibleText' # VisibleText
        /\ \A i \in 1..Len(chatCalls) :
              (chatCalls[i].status = "rejected" /\ chatCalls' = RemoveAt(chatCalls, i))
                  => VisibleText' # VisibleText
        /\ \A i \in 1..Len(narrateCalls) :
              (narrateCalls[i].status = "rejected" /\ narrateCalls' = RemoveAt(narrateCalls, i))
                  => VisibleText' # VisibleText ]_vars

\* the parts of a request turn that carry media
MediaParts(turn) == {k \in 1..Len(turn.parts) : "inlineData" \in DOMAIN turn.parts[k]}

\* C10: the request handleSend issues holds the turns of the transcript as of
\* the send, in order, each as {role, parts: [text]}, then one user turn with
\* the message; the media part, if any, is in that last turn and no other.
C10_RequestIsTranscriptThenMessage ==
    [][Len(chatCalls') = Len(chatCalls) + 1
          => LET contents == chatCalls'[Len(chatCalls')].contents
                 n == Len(messages)
                 last == contents[n + 1]
             IN  /\ Len(contents) = n + 1
                 /\ \A k \in 1..n :
                       /\ contents[k].role = messages[k].role
                       /\ contents[k].parts = <<[text |-> messages[k].text]>>
                 /\ last.role = "user"
                 /\ last.parts[Len(last.parts)] = [text |-> input]
                 /\ Cardinality({k \in 1..Len(last.parts) : last.parts[k] = [text |-> input]}) = 1
                 /\ IF state.image # NoMedia
                      THEN /\ Len(last.parts) = 2
                           /\ last.parts[1] = [inlineData |->
                                  [mimeType |-> state.mediaMimeType, data |-> state.image[2]]]
                      ELSE Len(last.parts) = 1
                 /\ messages' = Append(messages, [role |-> "user", text |-> input])]_vars

\* a request in flight replays an earlier exchange and carries media in its last turn
C10_ReplayWithMedia ==
    \E i \in 1..Len(chatCalls) :
        LET contents == chatCalls[i].contents
        IN  /\ Len(contents) = 4
            /\ MediaParts(contents[4]) = {1}
            /\ contents[2].role = "user"
            /\ contents[3].role = "model"

\* C11: building a request has no side effect on the transcript. After
\* chatWithStoryAssistant has built its request, the history array it was
\* handed still holds the turns of the transcript it was mapped from, no more
\* and no fewer, and the transcript has gained only the user turn handleSend
\* itself appends; issuing a narrative generation, a suggestion generation or
\* a narration leaves the transcript as it was.
C11_RequestBuildingLeavesTranscript ==
    [][/\ Len(chatCalls') = Len(chatCalls) + 1 =>
            LET c == chatCalls'[Len(chatCalls')]
            IN  /\ Len(c.history) = Len(messages)
                /\ \A k \in 1..Len(messages) :
                        /\ c.history[k].role = messages[k].role
                        /\ c.history[k].parts = <<[text |-> messages[k].text]>>
                /\ messages' = Append(messages, [role |-> "user", text |-> c.message])
       /\ (\/ Len(analyzeCalls') = Len(analyzeCalls) + 1
           \/ Len(suggestCalls') = Len(suggestCalls) + 1
           \/ Len(narrateCalls') = Len(narrateCalls) + 1) => messages' = messages
      ]_vars

\* a chat request built with media from a transcript of three turns, while a
\* request of each other type, built after the transcript had grown, is in flight
C11_AllBuiltOnGrownTranscript ==
    /\ \E i \in 1..Len(chatCalls) :
            /\ Len(chatCalls[i].history) = 3
            /\ Len(chatCalls[i].contents) = 4
            /\ MediaParts(chatCalls[i].contents[4]) # {}
    /\ Len(analyzeCalls) = 1
    /\ Len(suggestCalls) = 1
    /\ Len(narrateCalls) = 1

\* the signed 16-bit value whose low byte is lo and whose high byte is hi
Signed16(lo, hi) == IF hi >= 128 THEN lo + 256 * hi - 65536 ELSE lo + 256 * hi

\* the audio holds numChannels channels of frames frames each, the sample of
\* channel c at frame i being the little-endian value at sample i*C + c of
\* data (over 32768), within [-1, 1]
IsDeinterleaved(audio, data, numChannels, frames) ==
    /\ audio.ok
    /\ Len(audio.channels) = numChannels
    /\ \A c \in 1..numChannels :
            /\ Len(audio.channels[c]) = frames
            /\ \A i \in 1..frames :
                    LET k == (i - 1) * numChannels + (c - 1)
                        v == audio.channels[c][i]
                    IN  /\ v = Signed16(data[2 * k + 1], data[2 * k + 2])
                        /\ -32768 <= v
                        /\ v <= 32768

\* C12: for every buffer whose byte length is a multiple of 2*C,
\* decodeAudioData returns C channels of floor(samples / C) frames, the sample
\* of channel c at frame i being the signed 16-bit little-endian value at
\* sample index i*C + c divided by 32768, each within [-1.0, 1.0].
C12_DecodesWholeBuffers ==
    ("decodeAudioData" \in codec.ran /\ Len(codec.data) % (2 * codec.numChannels) = 0)
        => IsDeinterleaved(codec.audio, codec.data, codec.numChannels,
                           (Len(codec.data) \div 2) \div codec.numChannels)

\* C13: for every buffer whose byte length is not a multiple of 2*C, an odd
\* length included, decodeAudioData does not throw and returns the
\* floor(N/C) complete frames of the N whole samples, each sample read from
\* inside the buffer; the remaining bytes are dropped.
C13_TruncatesPartialFrames ==
    ("decodeAudioData" \in codec.ran /\ Len(codec.data) % (2 * codec.numChannels) # 0)
        => IsDeinterleaved(codec.audio, codec.data, codec.numChannels,
                           (Len(codec.data) \div 2) \div codec.numChannels)

\* C14: decode undoes encode on every byte sequence, the empty one and those
\* with bytes from 128 to 255 included: decode(encode(b)) does not throw and
\* equals b.
C14_DecodeInvertsEncode ==
    "decode" \in codec.ran => codec.decoded.ok /\ codec.decoded.bytes = codec.data

\* a buffer with the bytes 128 and 255 whose encoding is padded has been
\* encoded and decoded
C14_HighBytesRoundTripped ==
    /\ "decode" \in codec.ran
    /\ Len(codec.data) % 3 # 0
    /\ \E i \in 1..Len(codec.data), j \in 1..Len(codec.data) :
            codec.data[i] = 128 /\ codec.data[j] = 255
    /\ codec.decoded.bytes = codec.data

\* the triggers as the user finds them: the control is enabled and its handler
\* would issue a call
CanAnalyze ==
    AnalyzeTriggerEnabled /\ ~(state.image = NoMedia \/ state.mediaMimeType = NoMime)

CanChat == activeTab = "chat" /\ CanSend

\* C16 as stated: the step that puts a call of one action type in flight
\* leaves enabled every trigger of another action type that was enabled
\* before it.
C16_OtherTriggersStayEnabled ==
    [][/\ Len(analyzeCalls') = Len(analyzeCalls) + 1 =>
            /\ CanGetSuggestions => CanGetSuggestions'
            /\ CanReadAloud => CanReadAloud'
            /\ CanChat => CanChat'
       /\ Len(suggestCalls') = Len(suggestCalls) + 1 =>
            /\ CanAnalyze => CanAnalyze'
            /\ CanReadAloud => CanReadAloud'
            /\ CanChat => CanChat'
       /\ Len(narrateCalls') = Len(narrateCalls) + 1 =>
            /\ CanAnalyze => CanAnalyze'
            /\ CanGetSuggestions => CanGetSuggestions'
            /\ CanChat => CanChat'
       /\ Len(chatCalls') = Len(chatCalls) + 1 =>
            /\ CanAnalyze => CanAnalyze'
            /\ CanGetSuggestions => CanGetSuggestions'
            /\ CanReadAloud => CanReadAloud'
      ]_vars

\* C16, amended: the step that puts a suggestion generation, a chat turn or a
\* narration in flight leaves enabled every trigger of another action type
\* that was enabled before it; the step that puts a narrative generation in
\* flight leaves the chat trigger enabled, and clears the paragraph, which
\* disables suggestion generation and narration until there is a paragraph
\* again.
C16_OtherTriggersStayEnabledButParagraph ==
    [][/\ Len(analyzeCalls') = Len(analyzeCalls) + 1 =>
            /\ CanChat => CanChat'
            /\ ~CanGetSuggestions'
            /\ ~CanReadAloud'
       /\ Len(suggestCalls') = Len(suggestCalls) + 1 =>
            /\ CanAnalyze => CanAnalyze'
            /\ CanReadAloud => CanReadAloud'
            /\ CanChat => CanChat'
       /\ Len(narrateCalls') = Len(narrateCalls) + 1 =>
            /\ CanAnalyze => CanAnalyze'
            /\ CanGetSuggestions => CanGetSuggestions'
            /\ CanChat => CanChat'
       /\ Len(chatCalls') = Len(chatCalls) + 1 =>
            /\ CanAnalyze => CanAnalyze'
            /\ CanGetSuggestions => CanGetSuggestions'
            /\ CanReadAloud => CanReadAloud'
      ]_vars

\* a chat call is pending and narration can be requested; then a narration and
\* a suggestion generation are pending beside it and narrative generation can
\* still be requested
C16_NarrationBesideChat ==
    /\ Len(chatCalls) = 1
    /\ chatCalls[1].status = "pending"
    /\ Len(narrateCalls) = 1
    /\ narrateCalls[1].status = "pending"
    /\ Len(suggestCalls) = 1
    /\ suggestCalls[1].status = "pending"
    /\ CanAnalyze

\* C17: the transcript starts as the seeded model turn alone and afterwards
\* is that seed followed by every appended turn in the order of the appends:
\* each step leaves it as it was or adds one turn at its end, and the seed
\* stays its first turn.
C17_SeedThenAppendedTurns ==
    /\ messages = <<SeedTurn>>
    /\ [][/\ messages'[1] = SeedTurn
           /\ \/ messages' = messages
              \/ /\ Len(messages') = Len(messages) + 1
                 /\ SubSeq(messages', 1, Len(messages)) = messages
          ]_vars

\* C18: a narrative generation whose service call succeeded leaves a
\* non-empty paragraph in the session state, also when the service returned
\* an empty text, and neither issuing it nor completing it changes the
\* transcript.
C18_SuccessLeavesParagraph ==
    [][/\ Len(analyzeCalls') = Len(analyzeCalls) + 1 => messages' = messages
       /\ \A i \in 1..Len(analyzeCalls) :
            (analyzeCalls[i].status = "resolved" /\ analyzeCalls' = RemoveAt(analyzeCalls, i))
                => state'.paragraph # "" /\ messages' = messages
      ]_vars

\* the service returned an empty text and the paragraph shows the fallback,
\* beside a transcript that holds more than its seed
C18_FallbackShownBesideTranscript ==
    /\ state.paragraph = StoryFallbackText
    /\ ~state.isAnalyzing
    /\ Len(messages) >= 3

\* C19: a suggestion generation whose call succeeded replaces the suggestions
\* list by exactly what that call returned, in its order, keeping nothing of
\* the previous list; one whose call failed leaves the previous list as it was.
C19_SuggestionsReplacedWholly ==
    [][\A i \in 1..Len(suggestCalls) :
            suggestCalls' = RemoveAt(suggestCalls, i) =>
                /\ suggestCalls[i].status = "resolved" =>
                        state'.suggestions = ParseSuggestions(suggestCalls[i].text)
                /\ suggestCalls[i].status = "rejected" =>
                        state'.suggestions = state.suggestions
      ]_vars

\* a list of three sparks is shown and a call has returned a list of one item
\* that is about to replace it
C19_ShorterListReplacesThree ==
    /\ Len(state.suggestions.items) = 3
    /\ \E i \in 1..Len(suggestCalls) :
            /\ suggestCalls[i].status = "resolved"
            /\ Len(ParseSuggestions(suggestCalls[i].text).items) = 1

\* C20: a step that replaces the media attachment (an upload or a paste that
\* has been read) sets data and mime type together to those of one file,
\* empties paragraph, title and suggestions, and leaves the language and the
\* pending flags isAnalyzing, isReading and isGeneratingSuggestions as they
\* were.
C20_MediaLoadResetsText ==
    [][(state'.image # state.image \/ state'.mediaMimeType # state.mediaMimeType) =>
            /\ \E m \in Media : state'.image = m.url /\ state'.mediaMimeType = m.type
            /\ state'.paragraph = ""
            /\ state'.title = ""
            /\ state'.suggestions = JArray(<<>>)
            /\ state'.language = state.language
            /\ state'.isAnalyzing = state.isAnalyzing
            /\ state'.isReading = state.isReading
            /\ state'.isGeneratingSuggestions = state.isGeneratingSuggestions
      ]_vars

\* the media was replaced while all three App calls were pending, the language
\* was Hindi and a title had been typed: the flags and the language are kept,
\* the title is gone
C20_ReplacedWhileAllPending ==
    /\ Len(analyzeCalls) = 1
    /\ state.image # analyzeCalls[1].image
    /\ state.isAnalyzing
    /\ state.isReading
    /\ state.isGeneratingSuggestions
    /\ state.language = "Hindi"
    /\ state.title = ""
    /\ \E i \in 1..Len(narrateCalls) :
            narrateCalls[i].request = NarrateRequest(TextToRead("Dusk", narrateCalls[i].paragraph))

\* the text holds a character that is neither of the base64 alphabet nor padding
HasForeignChar(text) ==
    \E k \in 1..Len(text) : ~(IsB64Char(text[k]) \/ text[k] = "=")

C22_PendingFlagsCleared ==
    /\ []<>(~state.isAnalyzing)
    /\ []<>(~state.isGeneratingSuggestions)
    /\ []<>(~isLoading)
    /\ []<>(~state.isReading)

\* a narration has played to its end and isReading is false again, while the
\* three other flags are set
C22_ReadingClearedOthersPending ==
    /\ Len(sources) >= 1
    /\ sources[1] = "ended"
    /\ ~state.isReading
    /\ state.isAnalyzing
    /\ state.isGeneratingSuggestions
    /\ isLoading

\* C23: whenever a source is playing, isReading is true. isReading is set by
\* the step that issues the narration call, which is taken only while it is
\* false and nothing plays, and it becomes false only when a playing source
\* ends or when a narration completes without starting a source.
C23_ReadingWhilePlaying ==
    [][/\ Playing' # {} => state'.isReading
       /\ Len(narrateCalls') = Len(narrateCalls) + 1 =>
            ~state.isReading /\ state'.isReading /\ Playing = {}
       /\ (state.isReading /\ ~state'.isReading) =>
            \/ \E s \in Playing : sources'[s] = "ended"
            \/ /\ \E i \in 1..Len(narrateCalls) : narrateCalls' = RemoveAt(narrateCalls, i)
               /\ sources' = sources
      ]_vars

\* a second narration plays after the first has ended, and goes on playing
\* although an upload has emptied the paragraph meanwhile
C23_SecondPlaybackAfterUpload ==
    /\ sources = <<"ended", "playing">>
    /\ state.isReading
    /\ state.paragraph = ""
    /\ ~state.isAnalyzing

\* no two neighbours of a sequence of turns have the same role
Alternates(turns) ==
    \A k \in 1..(Len(turns) - 1) : turns[k].role # turns[k + 1].role

\* C24: the transcript starts with the seeded model turn and no two
\* consecutive turns have the same role; every chat request in flight ends
\* with a user turn that follows a model turn.
C24_SpeakersAlternate ==
    /\ messages[1] = SeedTurn
    /\ Alternates(messages)
    /\ \A i \in 1..Len(chatCalls) :
            LET contents == chatCalls[i].contents
            IN  /\ Len(contents) >= 2
                /\ contents[Len(contents)].role = "user"
                /\ contents[Len(contents) - 1].role = "model"

\* the second message of a transcript has been sent: four turns, and a
\* request of four turns in flight
C24_SecondRequestInFlight ==
    /\ Len(messages) = 4
    /\ \E i \in 1..Len(chatCalls) :
            chatCalls[i].live /\ Len(chatCalls[i].contents) = 4

\* C25: a non-empty suggestions list was generated from the paragraph and
\* the media now held: whenever the completion of a suggestion call leaves a
\* non-empty list, that call was issued with the paragraph and the media of
\* the state it completes in.
C25_SuggestionsOfCurrentParagraph ==
    [][\A i \in 1..Len(suggestCalls) :
            (/\ suggestCalls' = RemoveAt(suggestCalls, i)
             /\ suggestCalls[i].status = "resolved"
             /\ Len(state'.suggestions.items) > 0)
                => /\ suggestCalls[i].paragraph = state'.paragraph
                   /\ suggestCalls[i].image = state'.image
      ]_vars

\* the last element of a non-empty sequence
Last(seq) == seq[Len(seq)]

\* C26: a suggestion generation or a narration is issued only while the
\* paragraph of the session state is non-empty, and the paragraph text in the
\* request is the paragraph the state holds at the trigger: the third piece
\* of the suggestion prompt, the last piece of the text to narrate.
C26_CallsCarryCurrentParagraph ==
    [][/\ Len(suggestCalls') = Len(suggestCalls) + 1 =>
            /\ state.paragraph # ""
            /\ Last(Last(suggestCalls').request).text[3] = state.paragraph
       /\ Len(narrateCalls') = Len(narrateCalls) + 1 =>
            /\ state.paragraph # ""
            /\ Last(Last(narrateCalls').request[1].text) = state.paragraph
      ]_vars

\* a narration of a titled story and a suggestion generation in Hindi are in
\* flight, both carrying the paragraph "Once" that the state holds
C26_BothCarryOnce ==
    /\ state.paragraph = "Once"
    /\ \E i \in 1..Len(narrateCalls) :
            narrateCalls[i].request[1].text = <<"Narrate", "Dusk", ". ", "Once">>
    /\ \E i \in 1..Len(suggestCalls) :
            Last(suggestCalls[i].request).text = <<"3 suggestions", "image", "Once", "Hindi">>

====
